---- MODULE Spec2Model ----
(***************************************************************************)
(* Model of the pitch analysis of Ump-Pitch: the unsplit pipeline of       *)
(* mlbpitch.py (Dash callback update_graphs) and the home/away split       *)
(* pipeline of mlbpitchprod.py (Flask route get_game_data_route), both     *)
(* run on the same play-by-play feed of one game.                          *)
(*                                                                         *)
(* Encoding of the Python/JSON values:                                     *)
(*   - an optional value (a dict key that may be missing, or a value that  *)
(*     may be None) is a sequence of length at most one: <<>> is           *)
(*     "absent/None", <<v>> is "present with value v";                     *)
(*   - a pitch tuple p of the code is a TLA+ tuple with the same items,    *)
(*     p[0]..p[5] of the code being p[1]..p[6] here;                       *)
(*   - plate coordinates and zone heights are integers (a fixed-point      *)
(*     unit), the plate half width 0.708333 is 708333 millionths;          *)
(*   - a mean is the exact fraction <<sum, count>>.                        *)
(***************************************************************************)
EXTENDS Integers, Sequences, FiniteSets

VARIABLES feed, dash_out, api_out

vars == <<feed, dash_out, api_out>>

----------------------------------------------------------------------------
(* Optional values *)

None == <<>>

Some(v) == <<v>>

\* 'key' in d  /  value is not None
Has(o) == o # <<>>

\* Python truthiness of an optional number: None and 0 are false
Truthy(o) == Has(o) /\ o[1] # 0

----------------------------------------------------------------------------
(* The feed's JSON shapes *)

Coordinates(px, pz) == Some([pX |-> px, pZ |-> pz])

PitchData(coords, top, bottom) ==
    Some([coordinates |-> coords, strikeZoneTop |-> top, strikeZoneBottom |-> bottom])

\* a label entry of details: None (no such key), Some(None) (the entry has no
\* 'description'), Some(Some(text))
Described(text) == Some(Some(text))

Details(type, call) == Some([type |-> type, call |-> call])

Event(isPitch, pitchData, details) ==
    [isPitch |-> isPitch, pitchData |-> pitchData, details |-> details]

Play(halfInning, playEvents) ==
    [about |-> [halfInning |-> halfInning], playEvents |-> playEvents]

\* what the two statsapi.get calls give: fetch_ok is FALSE when either raises,
\* game_details_ok is FALSE when the game payload lacks a key the header needs,
\* plays is the play-by-play payload's 'allPlays' entry (None when missing)
Feed(fetch_ok, game_details_ok, plays) ==
    [fetch_ok |-> fetch_ok, game_details_ok |-> game_details_ok, plays |-> plays]

----------------------------------------------------------------------------
(* get_play_data *)

\* the nested loops "for play in allPlays: for event in play['playEvents']",
\* as the sequence of visited events, each with its play's half-inning marker
RECURSIVE VisitOrder(_)
VisitOrder(allPlays) ==
    IF allPlays = <<>> THEN <<>>
    ELSE LET play == Head(allPlays)
         IN  [i \in 1..Len(play.playEvents) |->
                 [halfInning |-> play.about.halfInning, event |-> play.playEvents[i]]]
             \o VisitOrder(Tail(allPlays))

\* the three nested ifs guarding the append
HasPlateCoordinates(event) ==
    /\ event.isPitch
    /\ Has(event.pitchData)
    /\ Has(event.pitchData[1].coordinates)
    /\ Has(event.pitchData[1].coordinates[1].pX)
    /\ Has(event.pitchData[1].coordinates[1].pZ)

\* event['details'][key]['description'] if key in event['details'] and
\* 'description' in event['details'][key] else 'Unknown'
LabelOrUnknown(entry) ==
    IF Has(entry) /\ Has(entry[1]) THEN entry[1][1] ELSE "Unknown"

\* event['details'] of an event that has no 'details' key raises KeyError
RaisesKeyError(event) == HasPlateCoordinates(event) /\ ~Has(event.details)

PitchTuple(event) ==
    <<event.pitchData[1].coordinates[1].pX[1],
      event.pitchData[1].coordinates[1].pZ[1],
      LabelOrUnknown(event.details[1].type),
      LabelOrUnknown(event.details[1].call),
      event.pitchData[1].strikeZoneTop,
      event.pitchData[1].strikeZoneBottom>>

SelectPitches(visited) ==
    LET kept == SelectSeq(visited, LAMBDA v : HasPlateCoordinates(v.event))
    IN  [i \in 1..Len(kept) |-> PitchTuple(kept[i].event)]

Returned(value) == [raised |-> "", value |-> value]

Raised(exception) == [raised |-> exception, value |-> None]

\* mlbpitch.py: returns None, or the pitch list (the header strings are left out)
get_play_data(f) ==
    IF ~f.fetch_ok THEN Returned(None)
    ELSE IF ~f.game_details_ok THEN Returned(None)
    ELSE IF ~Has(f.plays) THEN Raised("KeyError")
    ELSE LET visited == VisitOrder(f.plays[1])
         IN  IF \E i \in 1..Len(visited) : RaisesKeyError(visited[i].event)
             THEN Raised("KeyError")
             ELSE LET pitches == SelectPitches(visited)
                  IN  IF pitches = <<>> THEN Returned(None)
                      ELSE Returned(Some(pitches))

\* mlbpitchprod.py: the same walk, appending to home_pitches for a 'top' half
\* inning and to away_pitches otherwise
get_play_data_prod(f) ==
    IF ~f.fetch_ok THEN Returned(None)
    ELSE IF ~f.game_details_ok THEN Returned(None)
    ELSE IF ~Has(f.plays) THEN Raised("KeyError")
    ELSE LET visited == VisitOrder(f.plays[1])
         IN  IF \E i \in 1..Len(visited) : RaisesKeyError(visited[i].event)
             THEN Raised("KeyError")
             ELSE LET home_pitches ==
                          SelectPitches(SelectSeq(visited, LAMBDA v : v.halfInning = "top"))
                      away_pitches ==
                          SelectPitches(SelectSeq(visited, LAMBDA v : v.halfInning # "top"))
                  IN  IF home_pitches = <<>> /\ away_pitches = <<>> THEN Returned(None)
                      ELSE Returned(Some([home_pitches |-> home_pitches,
                                          away_pitches |-> away_pitches]))

----------------------------------------------------------------------------
(* scipy.spatial.ConvexHull and shapely Polygon / contains, on 2-D points *)

Cross(o, a, b) == (a[1] - o[1]) * (b[2] - o[2]) - (a[2] - o[2]) * (b[1] - o[1])

Dist2(a, b) == (a[1] - b[1]) * (a[1] - b[1]) + (a[2] - b[2]) * (a[2] - b[2])

SeqToSet(s) == {s[i] : i \in 1..Len(s)}

\* Qhull cannot build an initial simplex: every three input points are collinear
\* (this covers a single repeated point and points on one line)
Flat(P) == \A a \in P, b \in P, c \in P : Cross(a, b, c) = 0

FirstVertex(P) ==
    CHOOSE p \in P : \A q \in P : p[1] < q[1] \/ (p[1] = q[1] /\ p[2] <= q[2])

\* the next extreme point counterclockwise: every other point is to the left of
\* the edge, or on it and nearer
NextVertex(P, p) ==
    CHOOSE q \in P \ {p} :
        \A r \in P \ {p, q} :
            \/ Cross(p, q, r) > 0
            \/ (Cross(p, q, r) = 0 /\ Dist2(p, r) < Dist2(p, q))

RECURSIVE Wrap(_, _, _)
Wrap(P, first, cur) ==
    LET nxt == NextVertex(P, cur)
    IN  IF nxt = first THEN <<cur>> ELSE <<cur>> \o Wrap(P, first, nxt)

\* ConvexHull keeping every input point as a vertex, in input order
ConvexHull_unpruned(strike_coords) ==
    LET P == SeqToSet(strike_coords)
    IN  IF Flat(P) THEN Raised("QhullError")
        ELSE Returned(strike_coords)

\* ConvexHull(strike_coords) followed by strike_coords[hull.vertices]: QhullError
\* on flat input, else the extreme points in counterclockwise order (2-D hulls
\* list their vertices counterclockwise; which vertex comes first is not fixed by
\* the library, here it is the leftmost lowest one)
ConvexHull(strike_coords) ==
    LET P == SeqToSet(strike_coords)
    IN  IF Flat(P) THEN Raised("QhullError")
        ELSE Returned(Wrap(P, FirstVertex(P), FirstVertex(P)))

\* Polygon(points): the shell is a closed ring, closed by the constructor when
\* the last point is not the first
Polygon(hull_points) ==
    IF hull_points[Len(hull_points)] = hull_points[1] THEN hull_points
    ELSE Append(hull_points, hull_points[1])

\* contains read as boundary-inclusive (shapely's covers)
contains_or_touches(hull_polygon, point) ==
    \/ \A i \in 1..(Len(hull_polygon) - 1) :
           Cross(hull_polygon[i], hull_polygon[i + 1], point) >= 0
    \/ \A i \in 1..(Len(hull_polygon) - 1) :
           Cross(hull_polygon[i], hull_polygon[i + 1], point) <= 0

\* polygon.contains(Point(x, y)): the point is in the interior of the polygon; a
\* point of the boundary is not contained
contains(hull_polygon, point) ==
    \/ \A i \in 1..(Len(hull_polygon) - 1) :
           Cross(hull_polygon[i], hull_polygon[i + 1], point) > 0
    \/ \A i \in 1..(Len(hull_polygon) - 1) :
           Cross(hull_polygon[i], hull_polygon[i + 1], point) < 0

----------------------------------------------------------------------------
(* The figure: one field per trace the pipeline may add *)

sz_left == -708333

sz_right == 708333

EmptyFigure ==
    [balls |-> <<>>, called_strikes |-> <<>>, swinging_strikes |-> <<>>,
     fouls |-> <<>>, in_play |-> <<>>, strike_zone |-> None, umpire_zone |-> None,
     inconsistent |-> <<>>, last_pitch |-> None]

RECURSIVE Sum(_)
Sum(s) == IF s = <<>> THEN 0 ELSE Head(s) + Sum(Tail(s))

\* np.mean(values) as the exact fraction <<sum, count>>
Mean(values) == <<Sum(values), Len(values)>>

\* add_strike_zone: the 'Strike Zone' trace, or None when valid_sz is empty
add_strike_zone(pitch_data) ==
    LET valid_sz == SelectSeq(pitch_data, LAMBDA p : Truthy(p[5]) /\ Truthy(p[6]))
    IN  IF valid_sz # <<>>
        THEN Some([top |-> Mean([i \in 1..Len(valid_sz) |-> valid_sz[i][5][1]]),
                   bottom |-> Mean([i \in 1..Len(valid_sz) |-> valid_sz[i][6][1]]),
                   left |-> sz_left, right |-> sz_right])
        ELSE None

\* add_inconsistent_calls: the points of the 'Inconsistent' trace
add_inconsistent_calls(balls, hull_polygon) ==
    SelectSeq(balls, LAMBDA ball : contains(hull_polygon, <<ball[1], ball[2]>>))

\* add_umpire_strike_zone with the length test written "> 3"
add_umpire_strike_zone_gt3(called_strikes, balls) ==
    LET strike_coords == [i \in 1..Len(called_strikes) |->
                              <<called_strikes[i][1], called_strikes[i][2]>>]
    IN  IF called_strikes # <<>> /\ Len(strike_coords) > 3
        THEN LET hull == ConvexHull(strike_coords)
             IN  IF hull.raised # "" THEN Raised(hull.raised)
                 ELSE LET hull_points == Append(hull.value, hull.value[1])
                      IN  Returned([umpire_zone |-> Some(hull_points),
                                    inconsistent |->
                                        add_inconsistent_calls(balls, Polygon(hull_points))])
        ELSE Returned([umpire_zone |-> None, inconsistent |-> <<>>])

\* add_umpire_strike_zone of mlbpitch.py: the 'Umpire Strike Zone' ring (closed
\* by repeating the first hull point) and the 'Inconsistent' trace
add_umpire_strike_zone(called_strikes, balls) ==
    LET strike_coords == [i \in 1..Len(called_strikes) |->
                              <<called_strikes[i][1], called_strikes[i][2]>>]
    IN  IF called_strikes # <<>> /\ Len(strike_coords) >= 3
        THEN LET hull == ConvexHull(strike_coords)
             IN  IF hull.raised # "" THEN Raised(hull.raised)
                 ELSE LET hull_points == Append(hull.value, hull.value[1])
                      IN  Returned([umpire_zone |-> Some(hull_points),
                                    inconsistent |->
                                        add_inconsistent_calls(balls, Polygon(hull_points))])
        ELSE Returned([umpire_zone |-> None, inconsistent |-> <<>>])

\* add_umpire_strike_zone of mlbpitchprod.py testing the balls with a
\* boundary-inclusive containment, unlike mlbpitch.py
add_umpire_strike_zone_prod_touching(called_strikes, balls) ==
    LET strike_coords == [i \in 1..Len(called_strikes) |->
                              <<called_strikes[i][1], called_strikes[i][2]>>]
    IN  IF called_strikes # <<>> /\ Len(strike_coords) >= 3
        THEN LET hull == ConvexHull(strike_coords)
             IN  IF hull.raised # "" THEN Raised(hull.raised)
                 ELSE LET hull_points == hull.value
                      IN  Returned([umpire_zone |-> Some(Polygon(hull_points)),
                                    inconsistent |->
                                        SelectSeq(balls, LAMBDA ball :
                                            contains_or_touches(Polygon(hull_points),
                                                                <<ball[1], ball[2]>>))])
        ELSE Returned([umpire_zone |-> None, inconsistent |-> <<>>])

\* add_umpire_strike_zone of mlbpitchprod.py: the polygon is built from the open
\* list of hull points (the drawn outline is an interpolation of the same ring)
add_umpire_strike_zone_prod(called_strikes, balls) ==
    LET strike_coords == [i \in 1..Len(called_strikes) |->
                              <<called_strikes[i][1], called_strikes[i][2]>>]
    IN  IF called_strikes # <<>> /\ Len(strike_coords) >= 3
        THEN LET hull == ConvexHull(strike_coords)
             IN  IF hull.raised # "" THEN Raised(hull.raised)
                 ELSE LET hull_points == hull.value
                      IN  Returned([umpire_zone |-> Some(Polygon(hull_points)),
                                    inconsistent |->
                                        add_inconsistent_calls(balls, Polygon(hull_points))])
        ELSE Returned([umpire_zone |-> None, inconsistent |-> <<>>])

\* add_last_pitch: pitch_data[-1]
add_last_pitch(pitch_data) == pitch_data[Len(pitch_data)]

----------------------------------------------------------------------------
(* generate_plot_for_game *)

\* the call descriptions of the model's feeds for which
\* call.startswith('In play') is true
InPlayPrefixed == {"In play", "In play, out(s)", "In play, run(s)", "In play, no out"}

startswith_In_play(call) == call \in InPlayPrefixed

\* the ball bucket taking every pitch that is not a called strike
is_ball_or_other(p) == p[4] # "Called Strike"

is_ball(p) == p[4] = "Ball"

is_called_strike(p) == p[4] = "Called Strike"

is_swinging_strike(p) == p[4] = "Swinging Strike"

\* the foul bucket used as a catch-all for every call no other bucket takes
is_foul_or_other(p) ==
    p[4] \notin ({"Ball", "Called Strike", "Swinging Strike"} \cup InPlayPrefixed)

is_foul(p) == p[4] = "Foul"

is_in_play(p) == startswith_In_play(p[4])

\* mlbpitch.py; float(p[0]), float(p[1]) keep the value of a number.
\* add_pitch_trace adds a trace only for a non-empty list, so an empty bucket
\* and a missing trace are the same field value
generate_plot_for_game(pitches) ==
    IF pitches = <<>> THEN Returned(EmptyFigure)
    ELSE LET pitch_data == pitches
             balls == SelectSeq(pitch_data, is_ball)
             called_strikes == SelectSeq(pitch_data, is_called_strike)
             swinging_strikes == SelectSeq(pitch_data, is_swinging_strike)
             fouls == SelectSeq(pitch_data, is_foul)
             in_play == SelectSeq(pitch_data, is_in_play)
             zone == add_umpire_strike_zone(called_strikes, balls)
         IN  IF zone.raised # "" THEN Raised(zone.raised)
             ELSE Returned([balls |-> balls, called_strikes |-> called_strikes,
                            swinging_strikes |-> swinging_strikes, fouls |-> fouls,
                            in_play |-> in_play,
                            strike_zone |-> add_strike_zone(pitch_data),
                            umpire_zone |-> zone.value.umpire_zone,
                            inconsistent |-> zone.value.inconsistent,
                            last_pitch |-> Some(add_last_pitch(pitch_data))])

\* the pitch the split pipeline highlights: "if pitch_data_home: ... elif
\* pitch_data_away: ..."
last_pitch_prod(pitch_data_home, pitch_data_away) ==
    IF pitch_data_home # <<>> THEN Some(add_last_pitch(pitch_data_home))
    ELSE IF pitch_data_away # <<>> THEN Some(add_last_pitch(pitch_data_away))
    ELSE None

\* mlbpitchprod.py: the buckets are built per side; the zone, the hull and the
\* inconsistent calls use home + away
generate_plot_for_game_prod(home_pitches, away_pitches) ==
    IF home_pitches = <<>> /\ away_pitches = <<>> THEN Returned(EmptyFigure)
    ELSE LET pitch_data_home == home_pitches
             balls_home == SelectSeq(pitch_data_home, is_ball)
             called_strikes_home == SelectSeq(pitch_data_home, is_called_strike)
             swinging_strikes_home == SelectSeq(pitch_data_home, is_swinging_strike)
             fouls_home == SelectSeq(pitch_data_home, is_foul)
             in_play_home == SelectSeq(pitch_data_home, is_in_play)
             pitch_data_away == away_pitches
             balls_away == SelectSeq(pitch_data_away, is_ball)
             called_strikes_away == SelectSeq(pitch_data_away, is_called_strike)
             swinging_strikes_away == SelectSeq(pitch_data_away, is_swinging_strike)
             fouls_away == SelectSeq(pitch_data_away, is_foul)
             in_play_away == SelectSeq(pitch_data_away, is_in_play)
             zone == add_umpire_strike_zone_prod(called_strikes_home \o called_strikes_away,
                                                 balls_home \o balls_away)
         IN  IF zone.raised # "" THEN Raised(zone.raised)
             ELSE Returned([home |-> [balls |-> balls_home,
                                      called_strikes |-> called_strikes_home,
                                      swinging_strikes |-> swinging_strikes_home,
                                      fouls |-> fouls_home, in_play |-> in_play_home],
                            away |-> [balls |-> balls_away,
                                      called_strikes |-> called_strikes_away,
                                      swinging_strikes |-> swinging_strikes_away,
                                      fouls |-> fouls_away, in_play |-> in_play_away],
                            strike_zone |-> add_strike_zone(pitch_data_home \o pitch_data_away),
                            umpire_zone |-> zone.value.umpire_zone,
                            inconsistent |-> zone.value.inconsistent,
                            last_pitch |-> last_pitch_prod(pitch_data_home, pitch_data_away)])

EmptyBuckets ==
    [balls |-> <<>>, called_strikes |-> <<>>, swinging_strikes |-> <<>>,
     fouls |-> <<>>, in_play |-> <<>>]

EmptyFigureProd ==
    [home |-> EmptyBuckets, away |-> EmptyBuckets, strike_zone |-> None,
     umpire_zone |-> None, inconsistent |-> <<>>, last_pitch |-> None]

----------------------------------------------------------------------------
(* The two request handlers *)

\* a handler's answer: status, the value get_play_data returned to it (None when
\* it returned None or raised), and the pitch plot
Answer(status, result, fig) == [status |-> status, result |-> result, fig |-> fig]

\* mlbpitch.py, Dash callback update_graphs for a selected game: an exception
\* leaves the callback (status is the exception's name)
update_graphs_answer(f) ==
    LET result == get_play_data(f)
    IN  IF result.raised # "" THEN Answer(result.raised, None, EmptyFigure)
        ELSE IF result.value = None
        THEN Answer("Error retrieving game data", None, EmptyFigure)
        ELSE LET pitch_plot == generate_plot_for_game(result.value[1])
             IN  IF pitch_plot.raised # ""
                 THEN Answer(pitch_plot.raised, result.value, EmptyFigure)
                 ELSE Answer("ok", result.value, pitch_plot.value)

\* mlbpitchprod.py, route /api/game/<game_id>: 404 when get_play_data returns
\* None, 500 when anything raises, else 200 with the plot
get_game_data_route_answer(f) ==
    LET result == get_play_data_prod(f)
    IN  IF result.raised # "" THEN Answer("500", None, EmptyFigureProd)
        ELSE IF result.value = None THEN Answer("404", None, EmptyFigureProd)
        ELSE LET pitch_plot == generate_plot_for_game_prod(result.value[1].home_pitches,
                                                           result.value[1].away_pitches)
             IN  IF pitch_plot.raised # ""
                 THEN Answer("500", result.value, EmptyFigureProd)
                 ELSE Answer("200", result.value, pitch_plot.value)

NotRequested == Answer("not requested", None, EmptyFigure)

NotRequestedProd == Answer("not requested", None, EmptyFigureProd)

update_graphs ==
    /\ dash_out' = update_graphs_answer(feed)
    /\ UNCHANGED <<feed, api_out>>

get_game_data_route ==
    /\ api_out' = get_game_data_route_answer(feed)
    /\ UNCHANGED <<feed, dash_out>>

----------------------------------------------------------------------------
(* The feeds a request may meet *)

MaxStrikes == 3

MaxOthers == 1

MaxEvents == 3

\* the plate locations of the model, a 3 x 3 grid, in a fixed order
Grid == [i \in 1..9 |-> <<(i - 1) \div 3, (i - 1) % 3>>]

FullPitch(point, type, call, top, bottom) ==
    Event(TRUE, PitchData(Coordinates(Some(point[1]), Some(point[2])), top, bottom),
          Details(Described(type), Described(call)))

\* sequences of at most maxLen indices of 1..n in non-decreasing order: the
\* analysis of a list of pitches of one kind does not depend on their order
NonDecreasing(maxLen, n) ==
    UNION {{s \in [1..k -> 1..n] : \A i \in 1..(k - 1) : s[i] <= s[i + 1]} : k \in 0..maxLen}

UpTo(maxLen, n) == UNION {[1..k -> 1..n] : k \in 0..maxLen}

Pick(kinds, s) == [i \in 1..Len(s) |-> kinds[s[i]]]

\* called strikes anywhere on the grid
StrikeKinds == [i \in 1..9 |-> FullPitch(Grid[i], "Sinker", "Called Strike", None, None)]

\* balls anywhere on the grid, and in the middle of it a foul and a pitch with
\* an unrecognised call that carries zone bounds
OtherKinds ==
    [i \in 1..9 |-> FullPitch(Grid[i], "Slider", "Ball", None, None)]
    \o <<FullPitch(<<1, 1>>, "Slider", "Foul", None, None),
         FullPitch(<<1, 1>>, "Slider", "Hit By Pitch", Some(4), Some(1))>>

\* a top half inning of called strikes, then a bottom half inning of other pitches
GeometryFeeds ==
    {Feed(TRUE, TRUE, Some(<<Play("top", Pick(StrikeKinds, s)),
                             Play("bottom", Pick(OtherKinds, o))>>)) :
        s \in NonDecreasing(MaxStrikes, Len(StrikeKinds)),
        o \in NonDecreasing(MaxOthers, Len(OtherKinds))}

\* balls with every combination of zone bounds (absent, 0, positive), and one
\* pitch with an unrecognised call that carries bounds
ZoneKinds ==
    <<FullPitch(<<1, 1>>, "Curveball", "Ball", None, None),
      FullPitch(<<1, 1>>, "Curveball", "Ball", None, Some(0)),
      FullPitch(<<1, 1>>, "Curveball", "Ball", None, Some(1)),
      FullPitch(<<1, 1>>, "Curveball", "Ball", Some(0), None),
      FullPitch(<<1, 1>>, "Curveball", "Ball", Some(0), Some(0)),
      FullPitch(<<1, 1>>, "Curveball", "Ball", Some(0), Some(1)),
      FullPitch(<<1, 1>>, "Curveball", "Ball", Some(3), None),
      FullPitch(<<1, 1>>, "Curveball", "Ball", Some(3), Some(0)),
      FullPitch(<<1, 1>>, "Curveball", "Ball", Some(3), Some(1)),
      FullPitch(<<1, 1>>, "Curveball", "Ball", Some(4), None),
      FullPitch(<<1, 1>>, "Curveball", "Ball", Some(4), Some(0)),
      FullPitch(<<1, 1>>, "Curveball", "Ball", Some(4), Some(2)),
      FullPitch(<<1, 1>>, "Curveball", "Hit By Pitch", Some(5), Some(2))>>

ZoneFeeds ==
    {Feed(TRUE, TRUE, Some(<<Play("top", Pick(ZoneKinds, s))>>)) :
        s \in NonDecreasing(MaxEvents, Len(ZoneKinds))}

\* one pitch per call description
CallKinds ==
    <<FullPitch(<<0, 0>>, "Cutter", "Ball", None, None),
      FullPitch(<<0, 1>>, "Cutter", "Called Strike", None, None),
      FullPitch(<<0, 2>>, "Cutter", "Swinging Strike", None, None),
      FullPitch(<<1, 0>>, "Cutter", "Foul", None, None),
      FullPitch(<<1, 1>>, "Cutter", "In play, out(s)", None, None),
      FullPitch(<<1, 2>>, "Cutter", "In play, run(s)", None, None),
      FullPitch(<<2, 0>>, "Cutter", "Ball In Dirt", None, None),
      FullPitch(<<2, 1>>, "Cutter", "Hit By Pitch", None, None),
      FullPitch(<<2, 2>>, "Cutter", "Unknown", None, None)>>

CallFeeds ==
    {Feed(TRUE, TRUE, Some(<<Play("bottom", Pick(CallKinds, s))>>)) :
        s \in UpTo(MaxEvents, Len(CallKinds))}

\* the shapes of a play event: not a pitch, a pitch without pitchData, without
\* coordinates, with one coordinate only, two full pitches, and a pitch with
\* coordinates and no details
ShapeKinds ==
    <<Event(FALSE, PitchData(Coordinates(Some(1), Some(1)), None, None),
            Details(None, Described("Pickoff Attempt"))),
      Event(TRUE, None, Details(Described("Sinker"), Described("Ball"))),
      Event(TRUE, PitchData(None, Some(3), Some(1)),
            Details(Described("Sinker"), Described("Ball"))),
      Event(TRUE, PitchData(Coordinates(Some(1), None), None, None),
            Details(Described("Sinker"), Described("Ball"))),
      Event(TRUE, PitchData(Coordinates(None, Some(1)), None, None),
            Details(Described("Sinker"), Described("Ball"))),
      FullPitch(<<0, 1>>, "Sinker", "Ball", Some(3), Some(1)),
      FullPitch(<<2, 1>>, "Changeup", "Called Strike", None, None),
      Event(TRUE, PitchData(Coordinates(Some(1), Some(2)), None, None), None)>>

ShapeFeeds ==
    {Feed(TRUE, TRUE, Some(<<Play("top", Pick(ShapeKinds, s))>>)) :
        s \in UpTo(MaxEvents, Len(ShapeKinds))}

\* three full pitches told apart by their location, and an event that is no pitch
HalfKinds ==
    <<FullPitch(<<0, 0>>, "Sinker", "Ball", Some(3), Some(1)),
      FullPitch(<<1, 2>>, "Changeup", "Called Strike", None, None),
      FullPitch(<<2, 1>>, "Sweeper", "Foul", None, None),
      Event(FALSE, None, Details(None, Described("Mound Visit")))>>

\* consecutive events of the same half inning form one play
RECURSIVE Plays(_, _)
Plays(events, halves) ==
    IF events = <<>> THEN <<>>
    ELSE LET rest == Plays(Tail(events), Tail(halves))
         IN  IF rest # <<>> /\ rest[1].about.halfInning = Head(halves)
             THEN <<Play(Head(halves), <<Head(events)>> \o rest[1].playEvents)>>
                  \o Tail(rest)
             ELSE <<Play(Head(halves), <<Head(events)>>)>> \o rest

HalfFeeds ==
    {Feed(TRUE, TRUE, Some(Plays(Pick(HalfKinds, s), [i \in 1..Len(s) |-> h[i]]))) :
        s \in UpTo(MaxEvents, Len(HalfKinds)),
        h \in [1..MaxEvents -> {"top", "bottom"}]}

\* the shapes of a located pitch's labels: every label present, no 'type' entry,
\* no 'call' entry, a 'type' entry without 'description', a 'call' entry without
\* 'description', an empty details dict, and no 'details' key at all
LabelKinds ==
    <<FullPitch(<<0, 1>>, "Sinker", "Called Strike", None, None),
      Event(TRUE, PitchData(Coordinates(Some(0), Some(2)), None, None),
            Details(None, Described("Ball"))),
      Event(TRUE, PitchData(Coordinates(Some(1), Some(0)), None, None),
            Details(Described("Sinker"), None)),
      Event(TRUE, PitchData(Coordinates(Some(1), Some(1)), None, None),
            Details(Some(None), Described("Foul"))),
      Event(TRUE, PitchData(Coordinates(Some(1), Some(2)), None, None),
            Details(Described("Sinker"), Some(None))),
      Event(TRUE, PitchData(Coordinates(Some(2), Some(0)), None, None),
            Details(None, None)),
      Event(TRUE, PitchData(Coordinates(Some(2), Some(1)), None, None), None)>>

LabelFeeds ==
    {Feed(TRUE, TRUE, Some(<<Play("bottom", Pick(LabelKinds, s))>>)) :
        s \in UpTo(MaxEvents, Len(LabelKinds))}

\* called strikes at the corners of a triangle and at a point inside it, and a
\* ball at that inside point that carries zone bounds
MixKinds ==
    <<FullPitch(<<0, 0>>, "Sinker", "Called Strike", None, None),
      FullPitch(<<1, 1>>, "Sinker", "Called Strike", None, None),
      FullPitch(<<1, 2>>, "Sinker", "Called Strike", None, None),
      FullPitch(<<2, 1>>, "Sinker", "Called Strike", None, None),
      FullPitch(<<1, 1>>, "Slider", "Ball", Some(3), Some(1))>>

\* the pitches spread over top and bottom half innings in every way
MixedFeeds ==
    {Feed(TRUE, TRUE, Some(Plays(Pick(MixKinds, s), [i \in 1..Len(s) |-> h[i]]))) :
        s \in NonDecreasing(MaxStrikes + 1, Len(MixKinds)),
        h \in [1..(MaxStrikes + 1) -> {"top", "bottom"}]}

\* the payloads whose top-level shape is wrong or whose fetch fails
BrokenFeeds ==
    {Feed(fetch_ok, game_details_ok, plays) :
        fetch_ok \in BOOLEAN, game_details_ok \in BOOLEAN,
        plays \in {None, Some(<<>>),
                   Some(<<Play("top", <<CallKinds[1]>>)>>)}}

----------------------------------------------------------------------------
(* The state machine: one game's feed, and the last answer of each handler *)

Init ==
    /\ \/ feed \in BrokenFeeds
       \/ feed \in HalfFeeds
       \/ feed \in ShapeFeeds
       \/ feed \in LabelFeeds
       \/ feed \in MixedFeeds
       \/ feed \in CallFeeds
       \/ feed \in ZoneFeeds
       \/ feed \in GeometryFeeds
    /\ dash_out = NotRequested
    /\ api_out = NotRequestedProd

Next == update_graphs \/ get_game_data_route

Spec == Init /\ [][Next]_vars

----------------------------------------------------------------------------
(* Vocabulary of the properties *)

DashOk == dash_out.status = "ok"

ApiOk == api_out.status = "200"

\* the handler got a pitch list from get_play_data
DashExtracted == Has(dash_out.result)

ApiExtracted == Has(api_out.result)

DashPitches == dash_out.result[1]

ApiPitches == api_out.result[1].home_pitches \o api_out.result[1].away_pitches

PointOf(p) == <<p[1], p[2]>>

CalledStrikePoints(pitches) ==
    {PointOf(pitches[i]) : i \in {j \in 1..Len(pitches) : pitches[j][4] = "Called Strike"}}

NumCalledStrikes(pitches) ==
    Cardinality({j \in 1..Len(pitches) : pitches[j][4] = "Called Strike"})

\* all points on one line (or fewer than two distinct points)
Collinear(S) == \A a \in S, b \in S, c \in S : Cross(a, b, c) = 0

\* p is an interior point of the convex hull of S: no line through p and a point
\* of S has S on one closed side
StrictlyInsideHull(p, S) ==
    /\ S \ {p} # {}
    /\ \A s \in S \ {p} :
           /\ \E a \in S : Cross(p, s, a) > 0
           /\ \E b \in S : Cross(p, s, b) < 0

\* p is in the closed convex hull of S: in a closed triangle spanned by S
InsideOrOnHull(p, S) ==
    \E a \in S, b \in S, c \in S :
        /\ Cross(a, b, c) # 0
        /\ \/ Cross(a, b, p) >= 0 /\ Cross(b, c, p) >= 0 /\ Cross(c, a, p) >= 0
           \/ Cross(a, b, p) <= 0 /\ Cross(b, c, p) <= 0 /\ Cross(c, a, p) <= 0

Flagged(fig, p) == p \in SeqToSet(fig.inconsistent)

ZoneDefined(fig) == Has(fig.umpire_zone)

ZoneVertices(fig) == SeqToSet(fig.umpire_zone[1])

AllBuckets(b) ==
    SeqToSet(b.balls) \cup SeqToSet(b.called_strikes) \cup SeqToSet(b.swinging_strikes)
    \cup SeqToSet(b.fouls) \cup SeqToSet(b.in_play)

ApiBalls == api_out.fig.home.balls \o api_out.fig.away.balls

----------------------------------------------------------------------------
(* C1 *)

\* C1 as stated: with a defined empirical zone, a ball is flagged inconsistent
\* if and only if its point is inside or on the boundary of the hull polygon.
C1_BoundaryInclusive ==
    /\ (DashOk /\ ZoneDefined(dash_out.fig)) =>
           \A i \in 1..Len(dash_out.fig.balls) :
               Flagged(dash_out.fig, dash_out.fig.balls[i])
               <=> InsideOrOnHull(PointOf(dash_out.fig.balls[i]), ZoneVertices(dash_out.fig))
    /\ (ApiOk /\ ZoneDefined(api_out.fig)) =>
           \A i \in 1..Len(ApiBalls) :
               Flagged(api_out.fig, ApiBalls[i])
               <=> InsideOrOnHull(PointOf(ApiBalls[i]), ZoneVertices(api_out.fig))

\* C1 amended: with a defined empirical zone, a ball is flagged inconsistent if
\* and only if its point is strictly inside the hull polygon; a ball on a hull
\* edge, on a hull vertex or outside the hull is not flagged.
C1_StrictContainment ==
    /\ (DashOk /\ ZoneDefined(dash_out.fig)) =>
           \A i \in 1..Len(dash_out.fig.balls) :
               Flagged(dash_out.fig, dash_out.fig.balls[i])
               <=> StrictlyInsideHull(PointOf(dash_out.fig.balls[i]), ZoneVertices(dash_out.fig))
    /\ (ApiOk /\ ZoneDefined(api_out.fig)) =>
           \A i \in 1..Len(ApiBalls) :
               Flagged(api_out.fig, ApiBalls[i])
               <=> StrictlyInsideHull(PointOf(ApiBalls[i]), ZoneVertices(api_out.fig))

\* both handlers answered with a hull, a ball strictly inside it flagged by both
C1_Witness ==
    /\ DashOk /\ ZoneDefined(dash_out.fig)
    /\ ApiOk /\ ZoneDefined(api_out.fig)
    /\ \E i \in 1..Len(dash_out.fig.balls) :
           /\ StrictlyInsideHull(PointOf(dash_out.fig.balls[i]), ZoneVertices(dash_out.fig))
           /\ Flagged(dash_out.fig, dash_out.fig.balls[i])
           /\ Flagged(api_out.fig, dash_out.fig.balls[i])

----------------------------------------------------------------------------
(* C2 *)

\* C2 as stated: three or more called strikes that are all collinear (or all the
\* same point) give an answer without error, with no empirical zone and no
\* inconsistent call.
C2_DegenerateIsUndefined ==
    /\ ( /\ DashExtracted
         /\ NumCalledStrikes(DashPitches) >= 3
         /\ Collinear(CalledStrikePoints(DashPitches)) ) =>
           /\ DashOk
           /\ ~ZoneDefined(dash_out.fig)
           /\ dash_out.fig.inconsistent = <<>>
    /\ ( /\ ApiExtracted
         /\ NumCalledStrikes(ApiPitches) >= 3
         /\ Collinear(CalledStrikePoints(ApiPitches)) ) =>
           /\ ApiOk
           /\ ~ZoneDefined(api_out.fig)
           /\ api_out.fig.inconsistent = <<>>

----------------------------------------------------------------------------
(* C3 *)

\* C3 as stated: the empirical zone is undefined if and only if there are fewer
\* than 3 called strikes; with 3 or more a hull polygon is always produced, with
\* fewer none is produced and the pipeline does not fail.
C3_UndefinedIffFewerThan3 ==
    /\ DashExtracted =>
           IF NumCalledStrikes(DashPitches) >= 3
           THEN DashOk /\ ZoneDefined(dash_out.fig)
           ELSE DashOk /\ ~ZoneDefined(dash_out.fig)
    /\ ApiExtracted =>
           IF NumCalledStrikes(ApiPitches) >= 3
           THEN ApiOk /\ ZoneDefined(api_out.fig)
           ELSE ApiOk /\ ~ZoneDefined(api_out.fig)

\* C3 amended: a hull polygon is produced if and only if there are 3 or more
\* called strikes that are not all collinear; with 0, 1 or 2 called strikes none
\* is produced and the pipeline does not fail.
C3_HullIffThreeNonCollinear ==
    /\ DashExtracted =>
           /\ (DashOk /\ ZoneDefined(dash_out.fig))
              <=> ( /\ NumCalledStrikes(DashPitches) >= 3
                    /\ ~Collinear(CalledStrikePoints(DashPitches)) )
           /\ NumCalledStrikes(DashPitches) < 3 => DashOk
    /\ ApiExtracted =>
           /\ (ApiOk /\ ZoneDefined(api_out.fig))
              <=> ( /\ NumCalledStrikes(ApiPitches) >= 3
                    /\ ~Collinear(CalledStrikePoints(ApiPitches)) )
           /\ NumCalledStrikes(ApiPitches) < 3 => ApiOk

\* exactly three called strikes, not collinear, and both handlers produced a hull
C3_Witness ==
    /\ DashOk /\ ApiOk
    /\ NumCalledStrikes(DashPitches) = 3
    /\ ~Collinear(CalledStrikePoints(DashPitches))
    /\ ZoneDefined(dash_out.fig) /\ ZoneDefined(api_out.fig)

----------------------------------------------------------------------------
(* C4 *)

\* C4: every inconsistent call is a record of the Ball bucket (its call is
\* "Ball" and it is one of the extracted pitches), and there is no inconsistent
\* call when the empirical zone is undefined.
C4_InconsistentWithinBalls ==
    /\ \A i \in 1..Len(dash_out.fig.inconsistent) :
           /\ dash_out.fig.inconsistent[i][4] = "Ball"
           /\ dash_out.fig.inconsistent[i] \in SeqToSet(DashPitches)
    /\ ~ZoneDefined(dash_out.fig) => dash_out.fig.inconsistent = <<>>
    /\ \A i \in 1..Len(api_out.fig.inconsistent) :
           /\ api_out.fig.inconsistent[i][4] = "Ball"
           /\ api_out.fig.inconsistent[i] \in SeqToSet(ApiPitches)
    /\ ~ZoneDefined(api_out.fig) => api_out.fig.inconsistent = <<>>

\* a hull is defined, a pitch that is no ball lies strictly inside it, and
\* neither handler flags anything
C4_Witness ==
    /\ DashOk /\ ZoneDefined(dash_out.fig)
    /\ ApiOk /\ ZoneDefined(api_out.fig)
    /\ \E i \in 1..Len(DashPitches) :
           /\ DashPitches[i][4] \notin {"Ball", "Called Strike"}
           /\ StrictlyInsideHull(PointOf(DashPitches[i]), ZoneVertices(dash_out.fig))
    /\ dash_out.fig.inconsistent = <<>>
    /\ api_out.fig.inconsistent = <<>>

----------------------------------------------------------------------------
(* C5 *)

\* a record carries a zone bound when the value is present, 0 included
CarriesBoth(p) == Has(p[5]) /\ Has(p[6])

RECURSIVE SumItem(_, _)
SumItem(pitches, k) ==
    IF pitches = <<>> THEN 0 ELSE Head(pitches)[k][1] + SumItem(Tail(pitches), k)

\* the fraction equals total / count
IsMean(fraction, total, count) == fraction[1] * count = total * fraction[2]

RectOfCarrying(strike_zone, pitches) ==
    LET carrying == SelectSeq(pitches, CarriesBoth)
    IN  IF carrying = <<>> THEN ~Has(strike_zone)
        ELSE /\ Has(strike_zone)
             /\ IsMean(strike_zone[1].top, SumItem(carrying, 5), Len(carrying))
             /\ IsMean(strike_zone[1].bottom, SumItem(carrying, 6), Len(carrying))
             /\ strike_zone[1].left = -708333
             /\ strike_zone[1].right = 708333

\* C5 as stated: the strike-zone rectangle is undefined if and only if no record
\* carries both zone_top and zone_bottom, a value of 0 counting as carried;
\* otherwise top and bottom are the means over the records that carry both, and
\* left and right are -0.708333 and +0.708333.
C5_RectOverPresentBounds ==
    /\ DashOk => RectOfCarrying(dash_out.fig.strike_zone, DashPitches)
    /\ ApiOk => RectOfCarrying(api_out.fig.strike_zone, ApiPitches)

----------------------------------------------------------------------------
(* C6 *)

\* the call texts that begin with "In play"
BeginsInPlay(call) ==
    call \in {"In play", "In play, out(s)", "In play, run(s)", "In play, no out"}

Canonical(call) ==
    call \in {"Ball", "Called Strike", "Swinging Strike", "Foul"} \/ BeginsInPlay(call)

BucketsHolding(b, p) ==
    Cardinality({k \in 1..5 :
        p \in SeqToSet(<<b.balls, b.called_strikes, b.swinging_strikes, b.fouls, b.in_play>>[k])})

BucketSizes(b) ==
    Len(b.balls) + Len(b.called_strikes) + Len(b.swinging_strikes) + Len(b.fouls)
    + Len(b.in_play)

\* every record in exactly one bucket of the output, sizes adding up to the
\* number of records, "Ball" and only "Ball" in Ball, "In play..." in InPlay
SixWayPartition(b, pitches) ==
    /\ BucketSizes(b) = Len(pitches)
    /\ \A i \in 1..Len(pitches) :
           /\ BucketsHolding(b, pitches[i]) = 1
           /\ pitches[i] \in SeqToSet(b.balls) <=> pitches[i][4] = "Ball"
           /\ BeginsInPlay(pitches[i][4]) => pitches[i] \in SeqToSet(b.in_play)

\* C6 as stated: classification is a strict partition of the records, every
\* record in exactly one bucket of the output (an unrecognised call in an Unknown
\* bucket), the bucket sizes adding up to the number of records.
C6_StrictPartition ==
    /\ DashOk => SixWayPartition(dash_out.fig, DashPitches)
    /\ ApiOk => /\ SixWayPartition(api_out.fig.home, api_out.result[1].home_pitches)
                /\ SixWayPartition(api_out.fig.away, api_out.result[1].away_pitches)

----------------------------------------------------------------------------
(* C7 *)

\* the record sequence of the game in feed order
FeedOrderRecords == SelectPitches(VisitOrder(feed.plays[1]))

\* C7 as stated: the highlighted pitch is the last record of the game in feed
\* order, also when that record belongs to the away group.
C7_LastPitchIsLastOfFeed ==
    /\ DashOk => dash_out.fig.last_pitch = Some(FeedOrderRecords[Len(FeedOrderRecords)])
    /\ ApiOk => api_out.fig.last_pitch = Some(FeedOrderRecords[Len(FeedOrderRecords)])

----------------------------------------------------------------------------
(* C8 *)

Known(pitches) == SelectSeq(pitches, LAMBDA p : Canonical(p[4]))

UnknownIn(pitches) == {pitches[i] : i \in {j \in 1..Len(pitches) : ~Canonical(pitches[j][4])}}

\* the plot of the same game with the records of unrecognised call removed
DashPlotOfKnown == generate_plot_for_game(Known(DashPitches)).value

ApiPlotOfKnown ==
    generate_plot_for_game_prod(Known(api_out.result[1].home_pitches),
                                Known(api_out.result[1].away_pitches)).value

----------------------------------------------------------------------------
(* C9 *)

BothCoordinates(event) ==
    /\ event.isPitch
    /\ Has(event.pitchData)
    /\ Has(event.pitchData[1].coordinates)
    /\ Has(event.pitchData[1].coordinates[1].pX)
    /\ Has(event.pitchData[1].coordinates[1].pZ)

\* the plate points of the events flagged as pitches that carry both
\* coordinates, in feed order
ExpectedPoints(visited) ==
    LET kept == SelectSeq(visited, LAMBDA v : BothCoordinates(v.event))
    IN  [i \in 1..Len(kept) |-> <<kept[i].event.pitchData[1].coordinates[1].pX[1],
                                  kept[i].event.pitchData[1].coordinates[1].pZ[1]>>]

PointsOf(pitches) == [i \in 1..Len(pitches) |-> PointOf(pitches[i])]

Answered(out) == out.status # "not requested"

WellShaped == feed.fetch_ok /\ feed.game_details_ok /\ Has(feed.plays)

\* C9 as stated: get_play_data emits, without error, exactly one record per
\* pitch event that carries both plate coordinates and none for any other
\* event, in feed order (per side in the split pipeline).
C9_OneRecordPerLocatedPitch ==
    /\ (WellShaped /\ Answered(dash_out)) =>
           /\ dash_out.status # "KeyError"
           /\ PointsOf(IF DashExtracted THEN DashPitches ELSE <<>>)
              = ExpectedPoints(VisitOrder(feed.plays[1]))
    /\ (WellShaped /\ Answered(api_out)) =>
           /\ PointsOf(IF ApiExtracted THEN api_out.result[1].home_pitches ELSE <<>>)
              = ExpectedPoints(SelectSeq(VisitOrder(feed.plays[1]),
                                         LAMBDA v : v.halfInning = "top"))
           /\ PointsOf(IF ApiExtracted THEN api_out.result[1].away_pitches ELSE <<>>)
              = ExpectedPoints(SelectSeq(VisitOrder(feed.plays[1]),
                                         LAMBDA v : v.halfInning = "bottom"))

----------------------------------------------------------------------------
(* C10 *)

\* C10 as stated: when the play-by-play payload has no list of plays,
\* get_play_data gives its caller the "no data" result and does not raise, and
\* extraction never raises otherwise.
C10_NoPlaysIsNoData ==
    /\ Answered(dash_out) => dash_out.status # "KeyError"
    /\ (Answered(dash_out) /\ ~Has(feed.plays)) =>
           dash_out.status = "Error retrieving game data"
    /\ (Answered(api_out) /\ ~Has(feed.plays)) => api_out.status = "404"

----------------------------------------------------------------------------
(* C11 *)

\* the label the record should carry: the description under details[key], and
\* "Unknown" when the event has no details, details has no such entry, or the
\* entry has no description
ExpectedLabel(event, key) ==
    IF ~Has(event.details) THEN "Unknown"
    ELSE LET entry == IF key = "type" THEN event.details[1].type
                      ELSE event.details[1].call
         IN  IF ~Has(entry) THEN "Unknown"
             ELSE IF ~Has(entry[1]) THEN "Unknown"
             ELSE entry[1][1]

\* <<pitch type, call>> of the located pitch events, in feed order
ExpectedLabels(visited) ==
    LET kept == SelectSeq(visited, LAMBDA v : BothCoordinates(v.event))
    IN  [i \in 1..Len(kept) |-> <<ExpectedLabel(kept[i].event, "type"),
                                  ExpectedLabel(kept[i].event, "call")>>]

LabelsOf(pitches) == [i \in 1..Len(pitches) |-> <<pitches[i][3], pitches[i][4]>>]

TopVisited == SelectSeq(VisitOrder(feed.plays[1]), LAMBDA v : v.halfInning = "top")

BottomVisited == SelectSeq(VisitOrder(feed.plays[1]), LAMBDA v : v.halfInning = "bottom")

\* get_play_data raised inside the route: the 500 answer that carries no result
ApiExtractionRaised == api_out.status = "500" /\ ~ApiExtracted

\* C11 as stated: for every pitch event with plate coordinates, extraction
\* raises no error and the emitted record carries the described pitch type and
\* call, "Unknown" standing for a label that is absent at any level (no details,
\* no type/call entry, no description).
C11_SafeFallbacks ==
    /\ (WellShaped /\ Answered(dash_out)) =>
           /\ dash_out.status # "KeyError"
           /\ LabelsOf(IF DashExtracted THEN DashPitches ELSE <<>>)
              = ExpectedLabels(VisitOrder(feed.plays[1]))
    /\ (WellShaped /\ Answered(api_out)) =>
           /\ ~ApiExtractionRaised
           /\ LabelsOf(IF ApiExtracted THEN ApiPitches ELSE <<>>)
              = ExpectedLabels(TopVisited \o BottomVisited)

----------------------------------------------------------------------------
(* C12 *)

\* the records of the located pitch events, in feed order
ExpectedRecords(visited) ==
    LET kept == SelectSeq(visited, LAMBDA v : BothCoordinates(v.event))
    IN  [i \in 1..Len(kept) |->
            <<kept[i].event.pitchData[1].coordinates[1].pX[1],
              kept[i].event.pitchData[1].coordinates[1].pZ[1],
              ExpectedLabel(kept[i].event, "type"),
              ExpectedLabel(kept[i].event, "call"),
              kept[i].event.pitchData[1].strikeZoneTop,
              kept[i].event.pitchData[1].strikeZoneBottom>>]

HomeGroup == IF ApiExtracted THEN api_out.result[1].home_pitches ELSE <<>>

AwayGroup == IF ApiExtracted THEN api_out.result[1].away_pitches ELSE <<>>

\* C12 as stated: the split extraction puts the record of every located pitch of
\* a top half inning in the home group and of every located pitch of a bottom
\* half inning in the away group, each group in feed order, the two group sizes
\* adding up to the number of pitch events with coordinates.
C12_HomeAwayPartition ==
    (WellShaped /\ Answered(api_out)) =>
        /\ HomeGroup = ExpectedRecords(TopVisited)
        /\ AwayGroup = ExpectedRecords(BottomVisited)
        /\ Len(HomeGroup) + Len(AwayGroup) = Len(ExpectedPoints(VisitOrder(feed.plays[1])))

----------------------------------------------------------------------------
(* C13 *)

\* the ring without its closing point
OpenRing(ring) == SubSeq(ring, 1, Len(ring) - 1)

\* walking the ring never turns both left and right
TurnsOneWay(ring) ==
    LET r == OpenRing(ring)
        n == Len(r)
        turn(i) == Cross(r[i], r[(i % n) + 1], r[((i + 1) % n) + 1])
    IN  \/ \A i \in 1..n : turn(i) >= 0
        \/ \A i \in 1..n : turn(i) <= 0

HullProperty(fig, pitches) ==
    /\ \A p \in CalledStrikePoints(pitches) : InsideOrOnHull(p, ZoneVertices(fig))
    /\ ZoneVertices(fig) \subseteq CalledStrikePoints(pitches)
    /\ \A v \in ZoneVertices(fig) : ~StrictlyInsideHull(v, ZoneVertices(fig) \ {v})
    /\ TurnsOneWay(fig.umpire_zone[1])

\* C13: whenever the empirical zone is defined, every called-strike point lies
\* within or on the hull polygon, every hull vertex is one of the called-strike
\* points, and the polygon is convex (no vertex strictly inside the polygon of
\* the other vertices, the ring turning one way only).
C13_HullProperty ==
    /\ (DashOk /\ ZoneDefined(dash_out.fig)) => HullProperty(dash_out.fig, DashPitches)
    /\ (ApiOk /\ ZoneDefined(api_out.fig)) => HullProperty(api_out.fig, ApiPitches)

\* both handlers built a hull, the called strikes come from both half innings,
\* and one called strike is strictly inside the hull, so it is no vertex
C13_Witness ==
    /\ DashOk /\ ZoneDefined(dash_out.fig)
    /\ ApiOk /\ ZoneDefined(api_out.fig)
    /\ api_out.fig.home.called_strikes # <<>>
    /\ api_out.fig.away.called_strikes # <<>>
    /\ \E p \in CalledStrikePoints(DashPitches) :
           /\ StrictlyInsideHull(p, CalledStrikePoints(DashPitches))
           /\ p \notin ZoneVertices(dash_out.fig)
           /\ p \notin ZoneVertices(api_out.fig)

----------------------------------------------------------------------------
(* C14 *)

WithCall(pitches, call) == SelectSeq(pitches, LAMBDA p : p[4] = call)

\* the five drawn buckets hold the records of their call, in order
ClassifiedBuckets(b, pitches) ==
    /\ b.balls = WithCall(pitches, "Ball")
    /\ b.called_strikes = WithCall(pitches, "Called Strike")
    /\ b.swinging_strikes = WithCall(pitches, "Swinging Strike")
    /\ b.fouls = WithCall(pitches, "Foul")
    /\ b.in_play = SelectSeq(pitches, LAMBDA p : BeginsInPlay(p[4]))

SomeCarryBounds(pitches) == \E i \in 1..Len(pitches) : CarriesBoth(pitches[i])

\* what is left of a figure without hull: the rectangle when some record carries
\* zone bounds, the highlighted pitch, no overlay and no flag
DegradedOnly(fig, pitches) ==
    /\ SomeCarryBounds(pitches) => Has(fig.strike_zone)
    /\ Has(fig.last_pitch)
    /\ fig.last_pitch[1] \in SeqToSet(pitches)
    /\ ~ZoneDefined(fig)
    /\ fig.inconsistent = <<>>

\* C14 as stated: for every non-empty record sequence with fewer than 3 called
\* strikes the plot is produced without failure, with the classified buckets,
\* the strike-zone rectangle when zone bounds exist and the last-pitch
\* highlight, and with no empirical-zone overlay and no inconsistency flag.
C14_InsufficientGeometryDegrades ==
    /\ (DashExtracted /\ NumCalledStrikes(DashPitches) < 3) =>
           /\ DashOk
           /\ ClassifiedBuckets(dash_out.fig, DashPitches)
           /\ DegradedOnly(dash_out.fig, DashPitches)
    /\ (ApiExtracted /\ NumCalledStrikes(ApiPitches) < 3) =>
           /\ ApiOk
           /\ ClassifiedBuckets(api_out.fig.home, HomeGroup)
           /\ ClassifiedBuckets(api_out.fig.away, AwayGroup)
           /\ DegradedOnly(api_out.fig, ApiPitches)

----------------------------------------------------------------------------
(* C15 *)

Count(s, x) == Cardinality({i \in 1..Len(s) : s[i] = x})

\* the same records the same number of times
SameBag(s, t) == \A x \in SeqToSet(s) \cup SeqToSet(t) : Count(s, x) = Count(t, x)

SameBuckets ==
    /\ SameBag(api_out.fig.home.balls \o api_out.fig.away.balls, dash_out.fig.balls)
    /\ SameBag(api_out.fig.home.called_strikes \o api_out.fig.away.called_strikes,
               dash_out.fig.called_strikes)
    /\ SameBag(api_out.fig.home.swinging_strikes \o api_out.fig.away.swinging_strikes,
               dash_out.fig.swinging_strikes)
    /\ SameBag(api_out.fig.home.fouls \o api_out.fig.away.fouls, dash_out.fig.fouls)
    /\ SameBag(api_out.fig.home.in_play \o api_out.fig.away.in_play, dash_out.fig.in_play)

SameAnalysis ==
    /\ SameBuckets
    /\ api_out.fig.strike_zone = dash_out.fig.strike_zone
    /\ ZoneDefined(api_out.fig) <=> ZoneDefined(dash_out.fig)
    /\ ZoneDefined(dash_out.fig) => ZoneVertices(api_out.fig) = ZoneVertices(dash_out.fig)
    /\ SeqToSet(api_out.fig.inconsistent) = SeqToSet(dash_out.fig.inconsistent)

====
